---- MODULE Spec2Model ----
(***************************************************************************)
(* Model of the childsafety news feed worker.                              *)
(*                                                                         *)
(*  - Spec      : the KV-backed freshness controller (serveJson, serveRss, *)
(*                refreshNow, writeKv, writeMetaError, scheduled), with    *)
(*                several invocations running concurrently against one KV  *)
(*                namespace.  Time is in milliseconds, as Date.now().      *)
(*  - SpecFaulty : Spec with a KV namespace that may reject a put of      *)
(*                writeKv.                                                 *)
(*  - SpecExpire : the worker over a long time, with fairness.            *)
(*  - SpecFetch : one call of fetchWithRetry, attempt by attempt, and one  *)
(*                call of the timeout-guarded fetch of the revision that   *)
(*                has withTimeout.                                         *)
(*  - SpecExtract : one call of fetchChildSafetyNews on a document given   *)
(*                by its candidate anchors.                                *)
(*  - SpecSerial : Spec with one invocation at a time.                     *)
(*  - SpecHeal  : Spec with an upstream that recovers, with fairness.      *)
(*  - SpecFetchLive : SpecFetch with timers that fire, with fairness.     *)
(*  - SpecEdge  : the cache-backed revision (serveJsonWithCache,           *)
(*                serveRssWithCache and their background refreshes).       *)
(***************************************************************************)
EXTENDS Integers, Sequences, FiniteSets, TLC

VARIABLES now, ticks, starts, kvItems, kvRss, kvMeta, loc, out, everStored,
          fRev, fPc, fAttempt, fLastErr, fSeen, fIssued, fStart, fResult,
          tPc, tStart, tResult,
          xPc, xRev, xAnswer, xCt, xPage, xOut,
          healed, cache, eloc, eout

kvVars == <<kvItems, kvRss, kvMeta>>
fwrVars == <<fRev, fPc, fAttempt, fLastErr, fSeen, fIssued, fStart, fResult>>
tfVars == <<tPc, tStart, tResult>>
extractVars == <<xPc, xRev, xAnswer, xCt, xPage, xOut>>
edgeVars == <<cache, eloc, eout>>
fetchVars == <<fRev, fPc, fAttempt, fLastErr, fSeen, fIssued, fStart, fResult, tPc, tStart, tResult>>
vars == <<now, ticks, starts, kvItems, kvRss, kvMeta, loc, out, everStored,
          fRev, fPc, fAttempt, fLastErr, fSeen, fIssued, fStart, fResult,
          tPc, tStart, tResult,
          xPc, xRev, xAnswer, xCt, xPage, xOut,
          healed, cache, eloc, eout>>

(***************************************************************************)
(* Program constants                                                       *)
(***************************************************************************)
REFRESH_INTERVAL_SECONDS == 1800
KV_TTL_SECONDS == 604800
MS_PER_SECOND == 1000
TRIES == 3
MAX_ITEMS == 15
FETCH_TIMEOUT_MS == 12000
SNIPPET_LIMIT == 500
SNIPPET_CUT == 497

KV_TTL_MS == KV_TTL_SECONDS * MS_PER_SECOND

(***************************************************************************)
(* Bounds of the model                                                     *)
(***************************************************************************)
MaxTicks == 1
MaxStarts == 2
MaxFetchTicks == 3
MaxAnchors == 3
MaxLong == 17
MaxSnippet == 502
MixedLen == 5

\* The concurrent invocations of the worker that the model follows.
Procs == {1, 2}

\* How far the clock moves in one step: the refresh interval, half a second
\* more, one second more, and the KV expiration.
TickDeltas == {REFRESH_INTERVAL_SECONDS * MS_PER_SECOND,
               REFRESH_INTERVAL_SECONDS * MS_PER_SECOND + 500,
               (REFRESH_INTERVAL_SECONDS + 1) * MS_PER_SECOND,
               KV_TTL_MS}

\* What the upstream server answers to one request: an HTTP status, or 0 for
\* a request that is rejected (network error).
UpstreamAnswers == {200, 0}
FetchAnswers == {200, 403, 404, 429, 500, 0}
FetchTickDeltas == {250, 1000, FETCH_TIMEOUT_MS}

\* The documents the upstream serves to the freshness controller, each given
\* by its candidate anchors in document order: one without any anchor, and
\* one with two anchors for the same article.
Pages == {<<>>,
          <<[href |-> <<"news", "a">>, title |-> "T1", date |-> 1, summary |-> ""],
            [href |-> <<"news", "a">>, title |-> "T2", date |-> 2, summary |-> ""]>>}

Absent == 0 - 1

\* The clock stops two expiration periods after the start, which keeps every
\* expiration time (now + KV_TTL_MS) within a 32-bit integer.
ClockHorizon == 2 * KV_TTL_MS

(***************************************************************************)
(* fetchWithRetry, in the three revisions that have it:                    *)
(*   "edge"   the edge-cache worker                                        *)
(*   "kv"     the KV worker                                                *)
(*   "direct" the worker without a cache                                   *)
(***************************************************************************)
Revisions == {"edge", "kv", "direct"}

ResOk(status) == status >= 200 /\ status <= 299

\* The status test of the branch that keeps the error for a retry.
Retryable(rev, status) ==
  CASE rev = "edge" -> status = 403 \/ status = 429 \/ (status >= 500 /\ status <= 599)
    [] rev = "kv" -> status >= 500 /\ status <= 599
    [] OTHER -> status >= 500

HttpError(status) == "Upstream fetch failed: " \o ToString(status)
NetworkError == "fetch rejected"

\* The try block of one iteration for the answer `a` (0: the fetch rejects):
\* the response is returned, lastErr is assigned, or an error is thrown.
AttemptTry(rev, a) ==
  IF a = 0 THEN [ret |-> FALSE, thrown |-> TRUE, lastErr |-> NetworkError]
  ELSE IF ResOk(a) THEN [ret |-> TRUE, thrown |-> FALSE, lastErr |-> ""]
  ELSE IF Retryable(rev, a) THEN [ret |-> FALSE, thrown |-> FALSE, lastErr |-> HttpError(a)]
  ELSE [ret |-> FALSE, thrown |-> TRUE, lastErr |-> HttpError(a)]

\* catch (e) { lastErr = e; } encloses the whole try block, the throw of the
\* non-retryable branch included: nothing leaves the iteration as an error.
CatchClause(o) == [o EXCEPT !.thrown = FALSE]

Attempt(rev, a) == CatchClause(AttemptTry(rev, a))

LoopContinuesOffByOne(attempt, tries) == attempt < tries - 1

\* for (let attempt = 1; attempt <= tries; attempt++): after iteration
\* `attempt` failed, is there another one?
LoopContinues(attempt, tries) == attempt < tries

\* The sleep between attempts, in milliseconds.
Backoff(rev, attempt) ==
  IF rev = "direct" THEN 300 * attempt ELSE 250 * attempt * attempt

RECURSIVE FetchLoop(_, _, _, _, _)
FetchLoop(rev, answers, attempt, lastErr, tries) ==
  LET o == Attempt(rev, answers[attempt]) IN
  IF o.ret THEN [ok |-> TRUE, status |-> answers[attempt], err |-> ""]
  ELSE IF o.thrown THEN [ok |-> FALSE, status |-> 0, err |-> o.lastErr]
  ELSE IF LoopContinues(attempt, tries)
       THEN FetchLoop(rev, answers, attempt + 1, o.lastErr, tries)
       ELSE [ok |-> FALSE, status |-> 0, err |-> o.lastErr]

\* The result of one call, given the answers of the upstream server to the
\* successive requests.
fetchWithRetry(rev, answers, tries) == FetchLoop(rev, answers, 1, "", tries)

(***************************************************************************)
(* fetchChildSafetyNews: fetch, then extraction.  Two revisions of the     *)
(* extraction exist: "kv" (the KV worker; the edge-cache worker and the    *)
(* worker without a cache extract the same way) and "timeout" (the         *)
(* revision with withTimeout, the content-type test and the sort).         *)
(***************************************************************************)
ExtractRevs == {"kv", "timeout"}

ORIGIN == "https://www.childsafety.gov.au"
SOURCE == "childsafety.gov.au"

\* A candidate anchor, $("main a[href^='/news/']"): the segments of its href
\* after trimming, its trimmed text, the date text found near it (Absent:
\* none, 0: a text that is no date, k > 0: a date at time k) and the snippet.
Anchor(href, title, date, summary) ==
  [href |-> href, title |-> title, date |-> date, summary |-> summary]

RECURSIVE PathString(_)
PathString(segs) ==
  IF segs = <<>> THEN "" ELSE "/" \o Head(segs) \o PathString(Tail(segs))

\* new URL(href, "https://www.childsafety.gov.au").toString() for a href
\* that begins with a slash.
ResolveUrl(href) == ORIGIN \o PathString(href)

\* The string s contains the character c.
HasChar(s, c) == \E i \in 1..Len(s) : SubSeq(s, i, i) = c

\* /^\/news\/[^/?#]+\/?$/.test(href)
ArticlePath(href) ==
  /\ Len(href) \in {2, 3}
  /\ href[1] = "news"
  /\ href[2] # ""
  /\ ~HasChar(href[2], "?") /\ ~HasChar(href[2], "#")
  /\ Len(href) = 3 => href[3] = ""

\* The tests that skip a candidate.
Kept(rev, a) ==
  /\ a.href # <<>> /\ a.title # ""
  /\ a.href # <<"news">>
  /\ rev = "timeout" => ArticlePath(a.href)

\* if (snippet.length > 500) snippet = snippet.slice(0, 497) + "..."; only
\* the "timeout" revision has this statement.
Snippet(rev, text) ==
  IF rev = "timeout" /\ Len(text) > SNIPPET_LIMIT
  THEN SubSeq(text, 1, SNIPPET_CUT) \o "..." ELSE text

MakeItemSourceGuid(rev, a) ==
  LET link == ResolveUrl(a.href) IN
  [title |-> a.title, link |-> link, pubDate |-> a.date,
   summary |-> Snippet(rev, a.summary),
   guid |-> SOURCE \o ":" \o link,
   source |-> IF rev = "timeout" THEN "" ELSE SOURCE]

\* The record pushed for a candidate; the "timeout" revision has no source.
MakeItem(rev, a) ==
  LET link == ResolveUrl(a.href) IN
  [title |-> a.title, link |-> link, pubDate |-> a.date,
   summary |-> Snippet(rev, a.summary),
   guid |-> "childsafety:" \o link,
   source |-> IF rev = "timeout" THEN "" ELSE SOURCE]

RECURSIVE Collect(_, _)
Collect(rev, page) ==
  IF page = <<>> THEN <<>>
  ELSE (IF Kept(rev, Head(page)) THEN <<MakeItem(rev, Head(page))>> ELSE <<>>)
         \o Collect(rev, Tail(page))

LastWithLink(s, link) ==
  s[CHOOSE j \in 1..Len(s) :
      s[j].link = link /\ \A k \in (j + 1)..Len(s) : s[k].link # link]

FirstWithLink(s, link) ==
  s[CHOOSE j \in 1..Len(s) :
      s[j].link = link /\ \A k \in 1..(j - 1) : s[k].link # link]

RECURSIVE DedupeFirstWins(_, _)
DedupeFirstWins(s, i) ==
  IF i > Len(s) THEN <<>>
  ELSE IF \E j \in 1..(i - 1) : s[j].link = s[i].link THEN DedupeFirstWins(s, i + 1)
  ELSE <<FirstWithLink(s, s[i].link)>> \o DedupeFirstWins(s, i + 1)

RECURSIVE DedupeLastPlace(_, _)
DedupeLastPlace(s, i) ==
  IF i > Len(s) THEN <<>>
  ELSE IF \E j \in (i + 1)..Len(s) : s[j].link = s[i].link
  THEN DedupeLastPlace(s, i + 1)
  ELSE <<s[i]>> \o DedupeLastPlace(s, i + 1)

RECURSIVE Dedupe(_, _)
\* Array.from(new Map(items.map(i => [i.link, i])).values()): a Map keeps a
\* key at the place of its first insertion and the value of its last one.
Dedupe(s, i) ==
  IF i > Len(s) THEN <<>>
  ELSE IF \E j \in 1..(i - 1) : s[j].link = s[i].link THEN Dedupe(s, i + 1)
  ELSE <<LastWithLink(s, s[i].link)>> \o Dedupe(s, i + 1)

\* tryParseDate: the time of a date text, null (Absent) for any other text.
tryParseDate(text) == IF text > 0 THEN text ELSE Absent

\* The comparator of deduped.sort: db - da when both dates parse, else 0.
Compare(a, b) ==
  LET da == IF a.pubDate # Absent THEN tryParseDate(a.pubDate) ELSE Absent
      db == IF b.pubDate # Absent THEN tryParseDate(b.pubDate) ELSE Absent
  IN IF da # Absent /\ db # Absent THEN db - da ELSE 0

Reverse(s) == [i \in 1..Len(s) |-> s[Len(s) + 1 - i]]

\* Array.prototype.sort as the runtime (V8) executes it for an array of fewer
\* than 32 elements: the initial run is found (and reversed when strictly
\* descending), then the rest is placed by binary insertion.
RECURSIVE RunLength(_, _, _)
RunLength(s, idx, desc) ==
  IF idx > Len(s) THEN idx - 1
  ELSE LET o == Compare(s[idx], s[idx - 1]) IN
       IF (desc /\ o >= 0) \/ (~desc /\ o < 0) THEN idx - 1
       ELSE RunLength(s, idx + 1, desc)

RECURSIVE BinarySearch(_, _, _, _)
BinarySearch(s, pivot, left, right) ==
  IF left >= right THEN left
  ELSE LET mid == left + ((right - left) \div 2) IN
       IF Compare(pivot, s[mid]) < 0 THEN BinarySearch(s, pivot, left, mid)
       ELSE BinarySearch(s, pivot, mid + 1, right)

MoveTo(s, from, to) ==
  SubSeq(s, 1, to - 1) \o <<s[from]>> \o SubSeq(s, to, from - 1)
    \o SubSeq(s, from + 1, Len(s))

RECURSIVE BinaryInsertionSort(_, _)
BinaryInsertionSort(s, start) ==
  IF start > Len(s) THEN s
  ELSE BinaryInsertionSort(MoveTo(s, start, BinarySearch(s, s[start], 1, start)),
                           start + 1)

SortNonStrictRun(s) ==
  IF Len(s) < 2 THEN s
  ELSE LET desc == Compare(s[2], s[1]) <= 0
           run == IF desc THEN 2 ELSE RunLength(s, 3, desc)
           made == IF desc THEN Reverse(SubSeq(s, 1, run)) \o SubSeq(s, run + 1, Len(s))
                   ELSE s
       IN BinaryInsertionSort(made, run + 1)

Sort(s) ==
  IF Len(s) < 2 THEN s
  ELSE LET desc == Compare(s[2], s[1]) < 0
           run == RunLength(s, 3, desc)
           made == IF desc THEN Reverse(SubSeq(s, 1, run)) \o SubSeq(s, run + 1, Len(s))
                   ELSE s
       IN BinaryInsertionSort(made, run + 1)

Slice(s, n) == IF Len(s) <= n THEN s ELSE SubSeq(s, 1, n)

ExtractSliceFirst(rev, page) ==
  LET d == Dedupe(Slice(Collect(rev, page), MAX_ITEMS), 1) IN
  IF rev = "timeout" THEN Sort(d) ELSE d

\* The extraction: collect, deduplicate by link, sort (revision "timeout"
\* only), keep the first 15.
Extract(rev, page) ==
  LET d == Dedupe(Collect(rev, page), 1) IN
  Slice(IF rev = "timeout" THEN Sort(d) ELSE d, MAX_ITEMS)

\* contentType.includes("text/html"), the content type given by its parts.
IncludesTextHtml(ct) == \E i \in 1..Len(ct) : ct[i] = "text/html"

\* fetchChildSafetyNews for the upstream's answers to the successive
\* requests, the declared content type and the document of a 2xx answer.
\* Only the "timeout" revision looks at the content type; it makes a single
\* request.
fetchChildSafetyNews(rev, answers, ct, page) ==
  IF rev = "timeout"
  THEN IF answers[1] = 0 THEN [ok |-> FALSE, items |-> <<>>, err |-> NetworkError]
       ELSE IF ~ResOk(answers[1])
       THEN [ok |-> FALSE, items |-> <<>>, err |-> HttpError(answers[1])]
       ELSE IF ~IncludesTextHtml(ct)
       THEN [ok |-> FALSE, items |-> <<>>, err |-> "Upstream not HTML"]
       ELSE [ok |-> TRUE, items |-> Extract(rev, page), err |-> ""]
  ELSE LET r == fetchWithRetry("kv", answers, TRIES) IN
       IF r.ok THEN [ok |-> TRUE, items |-> Extract(rev, page), err |-> ""]
       ELSE [ok |-> FALSE, items |-> <<>>, err |-> r.err]

AnswerSeqs == [1..TRIES -> UpstreamAnswers]

\* The content types the upstream declares.
ContentTypes == {<<"text/html", "charset=utf-8">>, <<"application/json">>, <<>>}

\* What refreshNow of the KV worker can get from fetchChildSafetyNews.
FetchOutcomes ==
  {fetchChildSafetyNews("kv", a, ct, pg) :
     a \in AnswerSeqs, ct \in ContentTypes, pg \in Pages}

(***************************************************************************)
(* The KV namespace and FeedMeta                                           *)
(***************************************************************************)
NoItems == [has |-> FALSE, val |-> <<>>, exp |-> 0]
NoRssVal == [items |-> <<>>, lastBuildDate |-> 0]
NoRss == [has |-> FALSE, val |-> NoRssVal, exp |-> 0]
DefaultMeta == [lastSuccessIso |-> Absent, lastAttemptIso |-> Absent,
                lastError |-> "", itemCount |-> Absent]
NoMeta == [has |-> FALSE, val |-> DefaultMeta, exp |-> 0]

KvLiveSecondsAsMs(e) == e.has /\ now < e.exp \div MS_PER_SECOND

\* A key put with expirationTtl is readable until its expiration.
KvLive(e) == e.has /\ now < e.exp

getMeta == IF KvLive(kvMeta) THEN kvMeta.val ELSE DefaultMeta

metaAgeSecondsCeil(meta, t) ==
  IF meta.lastSuccessIso = Absent THEN Absent
  ELSE (t - meta.lastSuccessIso + MS_PER_SECOND - 1) \div MS_PER_SECOND

\* Math.floor((Date.now() - t) / 1000), or null (Absent) without lastSuccessIso.
metaAgeSeconds(meta, t) ==
  IF meta.lastSuccessIso = Absent THEN Absent
  ELSE (t - meta.lastSuccessIso) \div MS_PER_SECOND

\* age === null || age > REFRESH_INTERVAL_SECONDS
IsStale(age) == age = Absent \/ age > REFRESH_INTERVAL_SECONDS

toRss(items, t) == [items |-> items, lastBuildDate |-> t \div MS_PER_SECOND]

(***************************************************************************)
(* Invocations and responses                                               *)
(***************************************************************************)
\* An invocation's position and locals.  `after` records, for a request that
\* has not answered yet, whether a complete snapshot had been written when it
\* began; `t0` is the time at which a request computed the age.
IdleLoc == [pc |-> "idle", kind |-> "none", bg |-> FALSE, after |-> FALSE,
            meta |-> DefaultMeta, age |-> Absent, t0 |-> 0, pend |-> {},
            wItems |-> <<>>, wRss |-> NoRssVal, wMeta |-> DefaultMeta, wExp |-> 0]

\* `out` is the response the last step returned to a client, NoResp when the
\* step returned none.
NoResp == [proc |-> 0, status |-> 0, feed |-> "", kind |-> "none", items |-> <<>>,
           rss |-> NoRssVal, error |-> "", age |-> Absent]

\* jsonResponse of the KV worker takes no status: every JSON response is 200.
jsonResponse(p, items, feed, age) ==
  [proc |-> p, status |-> 200, feed |-> feed, kind |-> "items", items |-> items,
   rss |-> NoRssVal, error |-> "", age |-> age]

jsonError(p, msg, feed) ==
  [proc |-> p, status |-> 200, feed |-> feed, kind |-> "error", items |-> <<>>,
   rss |-> NoRssVal, error |-> msg, age |-> Absent]

rssResponse(p, rss, feed, age) ==
  [proc |-> p, status |-> 200, feed |-> feed, kind |-> "rss", items |-> <<>>,
   rss |-> rss, error |-> "", age |-> age]

textResponse(p, msg, status, feed) ==
  [proc |-> p, status |-> status, feed |-> feed, kind |-> "error", items |-> <<>>,
   rss |-> NoRssVal, error |-> msg, age |-> Absent]

DataKey(kind) == IF kind = "json" THEN kvItems ELSE kvRss

DataResponse(p, kind, e, feed, age) ==
  IF kind = "json" THEN jsonResponse(p, e.val, feed, age)
  ELSE rssResponse(p, e.val, feed, age)

(***************************************************************************)
(* The edge cache of the cache-backed revision                             *)
(***************************************************************************)
\* The two cached feeds, CACHE_KEY_JSON and CACHE_KEY_RSS.
FeedKinds == {"json", "rss"}

\* What caches.default holds under a key: a stored response, or nothing.
NoEntry == [has |-> FALSE, status |-> 0, xcache |-> "", items |-> <<>>, rss |-> NoRssVal]

\* jsonResponse(items, status, {"x-cache": x}) / rssResponse(rss, status, ...)
\* of the cache-backed revision, as the response or as the cached copy.
EdgeResponse(kind, items, status, x) ==
  [has |-> TRUE, status |-> status, xcache |-> x,
   items |-> IF kind = "json" THEN items ELSE <<>>,
   rss |-> IF kind = "rss" THEN toRss(items, now) ELSE NoRssVal]

\* An invocation of the cache-backed worker: its position, the feed it
\* serves and the items it has fetched.
EdgeIdle == [pc |-> "idle", kind |-> "none", items |-> <<>>]

\* The response the last step returned to a client, if any.
NoEdgeResp == [proc |-> 0, status |-> 0, xcache |-> "", items |-> <<>>,
               rss |-> NoRssVal, error |-> ""]

(***************************************************************************)
(* Initial state                                                           *)
(***************************************************************************)
Init ==
  /\ now = 0
  /\ ticks = 0
  /\ starts = 0
  /\ kvItems = NoItems
  /\ kvRss = NoRss
  /\ kvMeta = NoMeta
  /\ loc = [p \in Procs |-> IdleLoc]
  /\ out = NoResp
  /\ everStored = FALSE
  /\ fRev = "kv"
  /\ fPc = "idle"
  /\ fAttempt = 0
  /\ fLastErr = ""
  /\ fSeen = <<>>
  /\ fIssued = 0
  /\ fStart = 0
  /\ fResult = [ok |-> FALSE, status |-> 0, err |-> ""]
  /\ tPc = "idle"
  /\ tStart = 0
  /\ tResult = [ok |-> FALSE, status |-> 0, err |-> ""]
  /\ xPc = "idle"
  /\ xRev = "kv"
  /\ xAnswer = 0
  /\ xCt = <<>>
  /\ xPage = <<>>
  /\ xOut = [ok |-> FALSE, items |-> <<>>, err |-> ""]
  /\ healed = FALSE
  /\ cache = [k \in FeedKinds |-> NoEntry]
  /\ eloc = [p \in Procs |-> EdgeIdle]
  /\ eout = NoEdgeResp

(***************************************************************************)
(* The freshness controller                                                *)
(***************************************************************************)
\* A new invocation takes the lowest free slot.
FreeSlot(p) ==
  /\ loc[p].pc = "idle"
  /\ \A q \in Procs : q < p => loc[q].pc # "idle"
  /\ starts < MaxStarts

Tick ==
  /\ ticks < MaxTicks
  /\ starts > 0
  /\ \A p \in Procs : loc[p].pc \in {"idle", "refresh"}
  /\ \E d \in TickDeltas : now + d <= ClockHorizon /\ now' = now + d
  /\ ticks' = ticks + 1
  /\ out' = NoResp
  /\ UNCHANGED <<starts, kvVars, loc, everStored, fetchVars, extractVars, healed, edgeVars>>

\* serveJson / serveRss up to the first store read: getMeta and the age.
ServeStart(p, kind) ==
  /\ FreeSlot(p)
  /\ starts' = starts + 1
  /\ LET m == getMeta IN
     loc' = [loc EXCEPT ![p] = [IdleLoc EXCEPT !.pc = "readData", !.kind = kind,
                                 !.after = everStored, !.meta = m,
                                 !.age = metaAgeSeconds(m, now), !.t0 = now]]
  /\ out' = NoResp
  /\ UNCHANGED <<now, ticks, kvVars, everStored, fetchVars, extractVars, healed, edgeVars>>

\* What a request that found stale data does once it has answered: it goes on
\* as the background refresh (ctx.waitUntil).
AfterStale(l) ==
  [IdleLoc EXCEPT !.pc = "refresh", !.kind = l.kind, !.bg = TRUE, !.t0 = l.t0]

\* The read of the data key and the branch on it.
ServeRead(p) ==
  /\ loc[p].pc = "readData"
  /\ LET l == loc[p]
         e == DataKey(l.kind) IN
     IF KvLive(e)
     THEN IF IsStale(l.age)
          THEN /\ out' = DataResponse(p, l.kind, e, "STALE_SERVE_REFRESHING", l.age)
               /\ loc' = [loc EXCEPT ![p] = AfterStale(l)]
          ELSE /\ out' = DataResponse(p, l.kind, e, "FRESH_FROM_KV", l.age)
               /\ loc' = [loc EXCEPT ![p] = IdleLoc]
     ELSE /\ loc' = [loc EXCEPT ![p] =
                       [IdleLoc EXCEPT !.pc = "refresh", !.kind = l.kind,
                                       !.after = l.after]]
          /\ out' = NoResp
  /\ UNCHANGED <<now, ticks, starts, kvVars, everStored, fetchVars, extractVars, healed, edgeVars>>

\* scheduled(): refreshNow, whatever the state of the feed.
Scheduled(p) ==
  /\ FreeSlot(p)
  /\ starts' = starts + 1
  /\ loc' = [loc EXCEPT ![p] = [IdleLoc EXCEPT !.pc = "refresh", !.kind = "cron"]]
  /\ out' = NoResp
  /\ UNCHANGED <<now, ticks, kvVars, everStored, fetchVars, extractVars, healed, edgeVars>>

\* The meta endpoint: getMeta and the computed age.
MetaEndpoint(p) ==
  /\ FreeSlot(p)
  /\ starts' = starts + 1
  /\ LET m == getMeta IN
     out' = [NoResp EXCEPT !.proc = p, !.status = 200, !.feed = "META", !.kind = "meta",
                           !.age = metaAgeSeconds(m, now), !.error = m.lastError]
  /\ UNCHANGED <<now, ticks, kvVars, loc, everStored, fetchVars, extractVars, healed, edgeVars>>

WriteKvBeginRejectingEmpty(l, items) ==
  IF items = <<>>
  THEN [l EXCEPT !.pc = "metaErrPut",
                 !.wMeta = [getMeta EXCEPT !.lastAttemptIso = now,
                                           !.lastError = "No items extracted"]]
  ELSE [l EXCEPT !.pc = "puts", !.pend = {"items", "rss", "meta"},
                 !.wItems = items, !.wRss = toRss(items, now),
                 !.wMeta = [lastSuccessIso |-> now, lastAttemptIso |-> now,
                            lastError |-> "", itemCount |-> Len(items)],
                 !.wExp = now + KV_TTL_MS]

WriteKvBeginSpreadPrev(l, items) ==
  [l EXCEPT !.pc = "puts", !.pend = {"items", "rss", "meta"},
            !.wItems = items, !.wRss = toRss(items, now),
            !.wMeta = [getMeta EXCEPT !.lastSuccessIso = now, !.lastAttemptIso = now,
                                      !.itemCount = Len(items)],
            !.wExp = now + KV_TTL_MS]

\* writeKv up to Promise.all: the rendered RSS, the new FeedMeta, and the
\* three puts issued together.
WriteKvBegin(l, items) ==
  [l EXCEPT !.pc = "puts", !.pend = {"items", "rss", "meta"},
            !.wItems = items, !.wRss = toRss(items, now),
            !.wMeta = [lastSuccessIso |-> now, lastAttemptIso |-> now,
                       lastError |-> "", itemCount |-> Len(items)],
            !.wExp = now + KV_TTL_MS]

ErrorMetaKeepAttempt(prev, message) == [prev EXCEPT !.lastError = message]

\* writeMetaError's new FeedMeta: {...prev, lastAttemptIso, lastError}.
ErrorMeta(prev, message) ==
  [prev EXCEPT !.lastAttemptIso = now, !.lastError = message]

OnPipelineErrorUncaught(l, message) == [l EXCEPT !.pc = "crashed"]

\* The catch clause of refreshNow: writeMetaError up to its put.
OnPipelineError(l, message) ==
  [l EXCEPT !.pc = "metaErrPut", !.wMeta = ErrorMeta(getMeta, message)]

\* refreshNow up to its first store access: the jitter of a background
\* refresh, fetchChildSafetyNews, then writeKv or the catch clause.
Refresh(p) ==
  /\ loc[p].pc = "refresh"
  /\ \E o \in FetchOutcomes :
       loc' = [loc EXCEPT ![p] = IF o.ok THEN WriteKvBegin(loc[p], o.items)
                                 ELSE OnPipelineError(loc[p], o.err)]
  /\ out' = NoResp
  /\ UNCHANGED <<now, ticks, starts, kvVars, everStored, fetchVars, extractVars, healed, edgeVars>>

\* Where an invocation goes when refreshNow has returned.
AfterRefresh(l, ok) ==
  IF l.kind = "cron" \/ l.bg THEN IdleLoc
  ELSE [IdleLoc EXCEPT !.pc = IF ok THEN "readData2" ELSE "readMetaAfter",
                       !.kind = l.kind, !.after = l.after]

\* One of the three puts of writeKv reaches the store.
KvPut(p, k) ==
  /\ loc[p].pc = "puts"
  /\ k \in loc[p].pend
  /\ LET l == loc[p] IN
     /\ kvItems' = IF k = "items" THEN [has |-> TRUE, val |-> l.wItems, exp |-> l.wExp]
                   ELSE kvItems
     /\ kvRss' = IF k = "rss" THEN [has |-> TRUE, val |-> l.wRss, exp |-> l.wExp]
                 ELSE kvRss
     /\ kvMeta' = IF k = "meta" THEN [has |-> TRUE, val |-> l.wMeta, exp |-> l.wExp]
                  ELSE kvMeta
     /\ IF l.pend = {k}
        THEN /\ loc' = [loc EXCEPT ![p] = AfterRefresh(l, TRUE)]
             /\ everStored' = TRUE
        ELSE /\ loc' = [loc EXCEPT ![p].pend = l.pend \ {k}]
             /\ everStored' = everStored
  /\ out' = NoResp
  /\ UNCHANGED <<now, ticks, starts, fetchVars, extractVars, healed, edgeVars>>

\* The value a put of writeKv stores under its key.
Stored(l, val) == [has |-> TRUE, val |-> val, exp |-> l.wExp]

\* One of the three puts of writeKv is rejected: Promise.all rejects, writeKv
\* throws and refreshNow's catch clause runs writeMetaError.  The other puts
\* were issued together with it and nothing cancels them: each of those
\* still pending reaches the store or not.
KvPutFail(p, k) ==
  /\ loc[p].pc = "puts"
  /\ k \in loc[p].pend
  /\ LET l == loc[p] IN
     /\ \E landed \in SUBSET (l.pend \ {k}) :
          /\ kvItems' = IF "items" \in landed THEN Stored(l, l.wItems) ELSE kvItems
          /\ kvRss' = IF "rss" \in landed THEN Stored(l, l.wRss) ELSE kvRss
          /\ kvMeta' = IF "meta" \in landed THEN Stored(l, l.wMeta) ELSE kvMeta
     /\ loc' = [loc EXCEPT ![p] =
                  [OnPipelineError(l, "KV put failed")
                     EXCEPT !.pend = {}, !.wItems = <<>>, !.wRss = NoRssVal, !.wExp = 0]]
  /\ out' = NoResp
  /\ UNCHANGED <<now, ticks, starts, everStored, fetchVars, extractVars, healed, edgeVars>>

MetaErrPutTouchingData(p) ==
  /\ loc[p].pc = "metaErrPut"
  /\ kvMeta' = [has |-> TRUE, val |-> loc[p].wMeta, exp |-> now + KV_TTL_MS]
  /\ kvItems' = [kvItems EXCEPT !.exp = now + KV_TTL_MS]
  /\ kvRss' = [kvRss EXCEPT !.exp = now + KV_TTL_MS]
  /\ loc' = [loc EXCEPT ![p] = AfterRefresh(loc[p], FALSE)]
  /\ out' = NoResp
  /\ UNCHANGED <<now, ticks, starts, everStored, fetchVars, extractVars, healed, edgeVars>>

\* The put of writeMetaError.
MetaErrPut(p) ==
  /\ loc[p].pc = "metaErrPut"
  /\ kvMeta' = [has |-> TRUE, val |-> loc[p].wMeta, exp |-> now + KV_TTL_MS]
  /\ loc' = [loc EXCEPT ![p] = AfterRefresh(loc[p], FALSE)]
  /\ out' = NoResp
  /\ UNCHANGED <<now, ticks, starts, kvItems, kvRss, everStored, fetchVars, extractVars, healed, edgeVars>>

ErrorText(m) == IF m.lastError = "" THEN "Upstream refresh failed" ELSE m.lastError

\* The synchronous refresh failed: getMeta again, and the error response.
ReadMetaAfter(p) ==
  /\ loc[p].pc = "readMetaAfter"
  /\ LET l == loc[p]
         m == getMeta IN
     out' = IF l.kind = "json"
            THEN jsonError(p, ErrorText(m), "EMPTY_AND_REFRESH_FAILED")
            ELSE textResponse(p, ErrorText(m), 503, "EMPTY_AND_REFRESH_FAILED")
  /\ loc' = [loc EXCEPT ![p] = IdleLoc]
  /\ UNCHANGED <<now, ticks, starts, kvVars, everStored, fetchVars, extractVars, healed, edgeVars>>

\* The synchronous refresh succeeded: the data key is read again.
ReadData2(p) ==
  /\ loc[p].pc = "readData2"
  /\ LET l == loc[p]
         e == DataKey(l.kind) IN
     out' = IF KvLive(e) THEN DataResponse(p, l.kind, e, "REFRESHED_ON_DEMAND", Absent)
            ELSE IF l.kind = "json"
                 THEN jsonError(p, "Refresh succeeded but KV read failed (unexpected)",
                                "KV_READ_FAILED")
                 ELSE textResponse(p, "Refresh succeeded but KV read failed (unexpected)",
                                   500, "KV_READ_FAILED")
  /\ loc' = [loc EXCEPT ![p] = IdleLoc]
  /\ UNCHANGED <<now, ticks, starts, kvVars, everStored, fetchVars, extractVars, healed, edgeVars>>

Next ==
  \/ Tick
  \/ \E p \in Procs : ServeStart(p, "json")
  \/ \E p \in Procs : ServeStart(p, "rss")
  \/ \E p \in Procs : ServeRead(p)
  \/ \E p \in Procs : Scheduled(p)
  \/ \E p \in Procs : MetaEndpoint(p)
  \/ \E p \in Procs : Refresh(p)
  \/ \E p \in Procs : \E k \in {"items", "rss", "meta"} : KvPut(p, k)
  \/ \E p \in Procs : MetaErrPut(p)
  \/ \E p \in Procs : ReadMetaAfter(p)
  \/ \E p \in Procs : ReadData2(p)

Spec == Init /\ [][Next]_vars

\* The worker against a store that may reject a put of writeKv.
NextFaulty ==
  \/ Next
  \/ \E p \in Procs : \E k \in {"items", "rss", "meta"} : KvPutFail(p, k)

SpecFaulty == Init /\ [][NextFaulty]_vars

(***************************************************************************)
(* The worker over a long time: the clock moves by half the KV expiration  *)
(* for as long as a data key is readable, every invocation that has begun  *)
(* runs to its end, and the number of invocations is finite.               *)
(***************************************************************************)
TickExpire ==
  /\ starts > 0
  /\ \A p \in Procs : loc[p].pc \in {"idle", "refresh"}
  /\ KvLive(kvItems) \/ KvLive(kvRss)
  /\ now' = now + (KV_TTL_MS \div 2)
  /\ out' = NoResp
  /\ UNCHANGED <<ticks, starts, kvVars, loc, everStored, fetchVars, extractVars, healed, edgeVars>>

\* A step of an invocation that has begun.
ProcStep(p) ==
  \/ ServeRead(p)
  \/ Refresh(p)
  \/ \E k \in {"items", "rss", "meta"} : KvPut(p, k)
  \/ MetaErrPut(p)
  \/ ReadMetaAfter(p)
  \/ ReadData2(p)

NextExpire ==
  \/ TickExpire
  \/ \E p \in Procs : ServeStart(p, "json")
  \/ \E p \in Procs : ServeStart(p, "rss")
  \/ \E p \in Procs : Scheduled(p)
  \/ \E p \in Procs : MetaEndpoint(p)
  \/ \E p \in Procs : ProcStep(p)

SpecExpire ==
  /\ Init
  /\ [][NextExpire]_vars
  /\ WF_vars(TickExpire)
  /\ WF_vars(\E p \in Procs : ProcStep(p))

(***************************************************************************)
(* The fetcher, step by step                                               *)
(***************************************************************************)
NoResult == [ok |-> FALSE, status |-> 0, err |-> ""]

\* A pending abort timer fires before the clock passes its deadline.
TimerAllows(t) == tPc = "inflight" => t <= tStart + FETCH_TIMEOUT_MS

FetchTick ==
  /\ ticks < MaxFetchTicks
  /\ fPc # "idle" \/ tPc # "idle"
  /\ \E d \in FetchTickDeltas : TimerAllows(now + d) /\ now' = now + d
  /\ ticks' = ticks + 1
  /\ UNCHANGED <<starts, kvVars, loc, out, everStored, extractVars, healed, edgeVars, fwrVars, tfVars>>

\* fetchWithRetry is called: the first request is issued.
FwrCall(rev) ==
  /\ fPc = "idle" /\ tPc = "idle"
  /\ fRev' = rev
  /\ fPc' = "inflight"
  /\ fAttempt' = 1
  /\ fLastErr' = ""
  /\ fSeen' = <<>>
  /\ fIssued' = 1
  /\ fStart' = now
  /\ fResult' = NoResult
  /\ UNCHANGED <<now, ticks, starts, kvVars, loc, out, everStored, extractVars, healed, edgeVars, tfVars>>

\* The upstream server answers the request in flight: the rest of the
\* iteration, up to the sleep or to the end of the call.
FwrAnswer(a) ==
  /\ fPc = "inflight"
  /\ fSeen' = Append(fSeen, a)
  /\ LET o == Attempt(fRev, a) IN
     IF o.ret
     THEN /\ fPc' = "returned"
          /\ fResult' = [ok |-> TRUE, status |-> a, err |-> ""]
          /\ UNCHANGED <<fLastErr, fStart>>
     ELSE IF o.thrown
     THEN /\ fPc' = "raised"
          /\ fResult' = [ok |-> FALSE, status |-> 0, err |-> o.lastErr]
          /\ UNCHANGED <<fLastErr, fStart>>
     ELSE /\ fLastErr' = o.lastErr
          /\ IF LoopContinues(fAttempt, TRIES)
             THEN /\ fPc' = "backoff"
                  /\ fStart' = now
                  /\ fResult' = fResult
             ELSE /\ fPc' = "raised"
                  /\ fResult' = [ok |-> FALSE, status |-> 0, err |-> o.lastErr]
                  /\ fStart' = fStart
  /\ UNCHANGED <<now, ticks, starts, kvVars, loc, out, everStored, extractVars, healed, edgeVars, fRev, fAttempt,
                 fIssued, tfVars>>

\* The sleep between two attempts is over: the next request is issued.
FwrBackoffDone ==
  /\ fPc = "backoff"
  /\ now - fStart >= Backoff(fRev, fAttempt)
  /\ fAttempt' = fAttempt + 1
  /\ fIssued' = fIssued + 1
  /\ fStart' = now
  /\ fPc' = "inflight"
  /\ UNCHANGED <<now, ticks, starts, kvVars, loc, out, everStored, extractVars, healed, edgeVars, fRev, fLastErr,
                 fSeen, fResult, tfVars>>

\* The fetch of the revision with withTimeout: the abort timer is set and the
\* request is issued with its signal.
TfCall ==
  /\ tPc = "idle" /\ fPc = "idle"
  /\ tPc' = "inflight"
  /\ tStart' = now
  /\ tResult' = NoResult
  /\ UNCHANGED <<now, ticks, starts, kvVars, loc, out, everStored, extractVars, healed, edgeVars, fwrVars>>

\* The answer arrives before the abort: the timer is cleared; a response that
\* is not ok is raised, and so is a rejected fetch.
TfAnswer(a) ==
  /\ tPc = "inflight"
  /\ IF a # 0 /\ ResOk(a)
     THEN /\ tPc' = "returned"
          /\ tResult' = [ok |-> TRUE, status |-> a, err |-> ""]
     ELSE /\ tPc' = "raised"
          /\ tResult' = [ok |-> FALSE, status |-> 0,
                         err |-> IF a = 0 THEN NetworkError ELSE HttpError(a)]
  /\ UNCHANGED <<now, ticks, starts, kvVars, loc, out, everStored, extractVars, healed, edgeVars, fwrVars, tStart>>

\* The timer fires: controller.abort() rejects the fetch, and nothing
\* catches the rejection.
TfAbort ==
  /\ tPc = "inflight"
  /\ now - tStart >= FETCH_TIMEOUT_MS
  /\ tPc' = "raised"
  /\ tResult' = [ok |-> FALSE, status |-> 0, err |-> "The operation was aborted"]
  /\ UNCHANGED <<now, ticks, starts, kvVars, loc, out, everStored, extractVars, healed, edgeVars, fwrVars, tStart>>

NextFetch ==
  \/ FetchTick
  \/ \E rev \in Revisions : FwrCall(rev)
  \/ \E a \in FetchAnswers : FwrAnswer(a)
  \/ FwrBackoffDone
  \/ TfCall
  \/ \E a \in FetchAnswers : TfAnswer(a)
  \/ TfAbort

SpecFetch == Init /\ [][NextFetch]_vars


(***************************************************************************)
(* One call of fetchChildSafetyNews                                        *)
(***************************************************************************)
\* The candidate anchors of the short documents: two anchors for the same
\* article with different texts and dates, one without text, one without a
\* date, one whose date text is no date, the listing's own path with a
\* trailing slash, a nested path, and an article path with a query and one
\* with a fragment.
AnchorSet ==
  {Anchor(<<"news", "a">>, "T1", 1, "S1"),
   Anchor(<<"news", "a">>, "T2", 2, "S2"),
   Anchor(<<"news", "a">>, "", 1, ""),
   Anchor(<<"news", "b">>, "T1", Absent, ""),
   Anchor(<<"news", "b">>, "T2", 2, "S1"),
   Anchor(<<"news", "c">>, "T1", 3, ""),
   Anchor(<<"news", "c">>, "T1", 0, "S2"),
   Anchor(<<"news", "">>, "T1", 1, ""),
   Anchor(<<"news", "a", "x">>, "T1", 2, ""),
   Anchor(<<"news", "a?page=2">>, "T1", 1, ""),
   Anchor(<<"news", "a#top">>, "T1", 1, "")}

ShortPages == UNION {[1..n -> AnchorSet] : n \in 0..MaxAnchors}

\* A document with n dated anchors, oldest first; with `dup` the second
\* anchor points to the first one's article.
LongPage(n, dup) ==
  [i \in 1..n |->
     IF dup /\ i = 2 THEN Anchor(<<"news", "1">>, "T2", 2, "")
     ELSE Anchor(<<"news", ToString(i)>>, "T", i, "")]

LongPages == {LongPage(n, dup) : n \in (MAX_ITEMS - 1)..MaxLong, dup \in BOOLEAN}

\* A document with n anchors, the last of which points to the first one's
\* article.
LatePage(n) ==
  [i \in 1..n |->
     IF i = n THEN Anchor(<<"news", "1">>, "T2", n, "")
     ELSE Anchor(<<"news", ToString(i)>>, "T", i, "")]

LatePages == {LatePage(n) : n \in MAX_ITEMS..MaxLong}

\* A text of n characters.
RECURSIVE Text(_)
Text(n) ==
  IF n = 0 THEN "" ELSE IF n = 1 THEN "x" ELSE Text(n \div 2) \o Text(n - (n \div 2))

\* Documents with one article whose snippet has from 499 characters up.
SnippetPages ==
  {<<Anchor(<<"news", "a">>, "T1", 1, Text(n))>> : n \in (SNIPPET_LIMIT - 1)..MaxSnippet}

\* Documents with MixedLen articles, each with a date, a text that is no
\* date, or no date text.
MixedPage(dates) ==
  [i \in 1..MixedLen |-> Anchor(<<"news", ToString(i)>>, "T", dates[i], "")]

MixedPages == {MixedPage(d) : d \in [1..MixedLen -> {Absent, 0, 1, 2}]}

ExtractPages ==
  ShortPages \cup LongPages \cup LatePages \cup SnippetPages \cup MixedPages

\* fetchChildSafetyNews is called; the upstream answers every request with
\* the same status, content type and document.
XCall(rev) ==
  /\ xPc = "idle"
  /\ xRev' = rev
  /\ xAnswer' \in {200, 500}
  /\ xCt' \in ContentTypes
  /\ xPage' \in ExtractPages
  /\ xPc' = "called"
  /\ UNCHANGED <<now, ticks, starts, kvVars, loc, out, everStored, fetchVars, healed, edgeVars, xOut>>

\* The call returns its items or raises.
XReturn ==
  /\ xPc = "called"
  /\ xOut' = fetchChildSafetyNews(xRev, [i \in 1..TRIES |-> xAnswer], xCt, xPage)
  /\ xPc' = "done"
  /\ UNCHANGED <<now, ticks, starts, kvVars, loc, out, everStored, fetchVars, healed, edgeVars,
                 xRev, xAnswer, xCt, xPage>>

NextExtract ==
  \/ \E rev \in ExtractRevs : XCall(rev)
  \/ XReturn

SpecExtract == Init /\ [][NextExtract]_vars

(***************************************************************************)
(* Properties of the freshness controller (checked under Spec)             *)
(***************************************************************************)
RefreshIntervalMs == REFRESH_INTERVAL_SECONDS * MS_PER_SECOND

\* The step in which request p reads its data key.
ServeReadStep(p) == loc[p].pc = "readData" /\ loc'[p].pc # "readData"

\* The data key of request p holds an unexpired value.
Found(p) ==
  LET e == DataKey(loc[p].kind) IN e.has /\ now - (e.exp - KV_TTL_MS) < KV_TTL_MS

\* The response of the step carries, unmodified, the value stored under the
\* data key of request p, with status 200.
ServesStored(p) ==
  /\ out'.proc = p
  /\ out'.status = 200
  /\ IF loc[p].kind = "json"
     THEN out'.kind = "items" /\ out'.items = kvItems.val
     ELSE out'.kind = "rss" /\ out'.rss = kvRss.val

\* Milliseconds between the lastSuccessIso that request p read and the time
\* at which it computed the age.
SinceSuccess(p) == loc[p].t0 - loc[p].meta.lastSuccessIso

\* The step in which a refresh run by p puts FeedMeta.
MetaPutStep(p) ==
  \/ loc[p].pc = "puts" /\ "meta" \in loc[p].pend /\ "meta" \notin loc'[p].pend
  \/ loc[p].pc = "metaErrPut" /\ loc'[p].pc # "metaErrPut"

\* C1, as stated: a request that finds a snapshot whose FeedMeta has
\* lastSuccessTime T is treated as stale exactly when T' - T > 1800 seconds,
\* and is otherwise served from the store as fresh.
C1_StaleExactlyAfterInterval ==
  [][\A p \in Procs :
       (ServeReadStep(p) /\ Found(p) /\ loc[p].meta.lastSuccessIso # Absent)
       => ((out'.feed = "STALE_SERVE_REFRESHING") <=> (SinceSuccess(p) > RefreshIntervalMs))]_vars

\* C1, amended: the age is taken in whole seconds.  A request that read
\* lastSuccessTime T and finds its data key is served the stored value
\* unmodified with status 200; when T' - T < 1801 s it is fresh (no fetch, no
\* background refresh), and it is stale exactly when T' - T >= 1801 s.
C1_FreshWithinWholeSeconds ==
  [][\A p \in Procs :
       (ServeReadStep(p) /\ Found(p) /\ loc[p].meta.lastSuccessIso # Absent)
       => /\ ServesStored(p)
          /\ SinceSuccess(p) < RefreshIntervalMs + MS_PER_SECOND
             => /\ out'.feed = "FRESH_FROM_KV"
                /\ loc'[p].pc = "idle"
          /\ SinceSuccess(p) >= RefreshIntervalMs + MS_PER_SECOND
             => out'.feed = "STALE_SERVE_REFRESHING"]_vars

\* A snapshot 1800.5 s old has just been served as fresh.
C1_Witness ==
  /\ out.feed = "FRESH_FROM_KV"
  /\ out.age = REFRESH_INTERVAL_SECONDS
  /\ kvMeta.has
  /\ now - kvMeta.val.lastSuccessIso > RefreshIntervalMs

\* C2, as stated: a request that finds a snapshot older than 1800 s, or one
\* without lastSuccessTime, answers 200 with the stored snapshot and
\* schedules a background refresh.
C2_StaleAfterInterval ==
  [][\A p \in Procs :
       (ServeReadStep(p) /\ Found(p)
          /\ (loc[p].meta.lastSuccessIso = Absent \/ SinceSuccess(p) > RefreshIntervalMs))
       => (ServesStored(p) /\ loc'[p].pc = "refresh" /\ loc'[p].bg)]_vars

\* C2, amended: a request that finds a snapshot whose age in whole seconds
\* exceeds 1800 (T' - T >= 1801 s), or one without lastSuccessTime, answers
\* 200 with the stored snapshot in the same step, without any fetch, and goes
\* on as one background refresh; the FeedMeta put of that refresh, on success
\* or on failure, records a lastAttemptTime not older than the request.
C2_StaleServedThenRefreshed ==
  [][\A p \in Procs :
       /\ (ServeReadStep(p) /\ Found(p)
             /\ (loc[p].meta.lastSuccessIso = Absent
                   \/ SinceSuccess(p) >= RefreshIntervalMs + MS_PER_SECOND))
          => /\ ServesStored(p)
             /\ out'.feed = "STALE_SERVE_REFRESHING"
             /\ loc'[p].pc = "refresh" /\ loc'[p].bg
       /\ (loc[p].bg /\ MetaPutStep(p))
          => /\ kvMeta'.has
             /\ kvMeta'.val.lastAttemptIso >= loc[p].t0
             /\ kvMeta'.val.lastAttemptIso = now
       /\ (loc[p].bg /\ loc'[p].pc = "idle")
          => (loc[p].pc = "metaErrPut" \/ (loc[p].pc = "puts" /\ everStored'))]_vars

\* The background refresh of a request that found a snapshot at least 1801 s
\* old has put its FeedMeta.
C2_Witness ==
  \E p \in Procs :
    /\ loc[p].bg /\ loc[p].pc = "puts" /\ "meta" \notin loc[p].pend
    /\ loc[p].t0 >= RefreshIntervalMs + MS_PER_SECOND
    /\ kvMeta.val = loc[p].wMeta
    /\ kvMeta.val.lastAttemptIso >= loc[p].t0

\* C3: the response to a request that found no snapshot and whose
\* synchronous refresh failed has a non-200 status and carries the error.
C3_EmptyFailureIsNot200 ==
  out.feed = "EMPTY_AND_REFRESH_FAILED" => (out.status # 200 /\ out.error # "")

\* C4: the put of a failed refresh changes only lastError and lastAttemptTime
\* of the stored FeedMeta: the stored items, the stored RSS, lastSuccessTime
\* and itemCount stay what they are.
C4_FailedRefreshChangesOnlyErrorFields ==
  [][\A p \in Procs :
       (loc[p].pc = "metaErrPut" /\ loc'[p].pc # "metaErrPut")
       => /\ kvItems' = kvItems
          /\ kvRss' = kvRss
          /\ kvMeta'.val.lastSuccessIso = getMeta.lastSuccessIso
          /\ kvMeta'.val.itemCount = getMeta.itemCount]_vars

\* C5: the FeedMeta and the data that one request reads belong to the same
\* refresh: itemCount counts the items served, and the RSS served was built
\* at lastSuccessTime.
C5_ReaderSeesOneRefresh ==
  [][\A p \in Procs :
       (ServeReadStep(p) /\ Found(p))
       => IF loc[p].kind = "json"
          THEN loc[p].meta.itemCount = Len(kvItems.val)
          ELSE /\ loc[p].meta.itemCount = Len(kvRss.val.items)
               /\ loc[p].meta.lastSuccessIso # Absent
               /\ kvRss.val.lastBuildDate = loc[p].meta.lastSuccessIso \div MS_PER_SECOND]_vars

\* The step in which request p is answered.
Answered(p) ==
  /\ loc[p].pc \in {"readData", "readMetaAfter", "readData2"}
  /\ loc'[p].pc # loc[p].pc
  /\ out'.proc = p

\* C6, as stated: a request that began after a complete snapshot was written
\* is answered 200 with a snapshot, never with an error.
C6_NoErrorAfterFirstSnapshot ==
  [][\A p \in Procs :
       (Answered(p) /\ loc[p].after)
       => (out'.status = 200 /\ out'.kind \in {"items", "rss"})]_vars

\* C6, amended: once a complete snapshot has been written both data keys stay
\* in the store, and a request that began afterwards and reads its data key
\* less than 7 days (KV_TTL_SECONDS) after the key was last written is
\* answered 200 with the stored snapshot in that step.
C6_NoErrorWhileSnapshotLive ==
  /\ [](everStored => (kvItems.has /\ kvRss.has))
  /\ [][\A p \in Procs :
          (ServeReadStep(p) /\ loc[p].after /\ Found(p))
          => /\ ServesStored(p)
             /\ out'.feed \in {"FRESH_FROM_KV", "STALE_SERVE_REFRESHING"}
             /\ out'.error = ""]_vars

\* A request that came at least 1801 s after a complete write has just been
\* answered with the stored snapshot.
C6_Witness ==
  /\ everStored
  /\ out.status = 200 /\ out.feed = "STALE_SERVE_REFRESHING"
  /\ out.age > REFRESH_INTERVAL_SECONDS
  /\ \E p \in Procs : out.proc = p /\ loc[p].bg

\* C7: a background refresh never raises and never answers anybody: the
\* request that scheduled it was answered 200 with the snapshot in the step
\* that scheduled it, every later step of the refresh returns no response,
\* a failing pipeline leads to the FeedMeta put and nowhere else, and that
\* put leaves the items and the RSS alone.
C7_BackgroundErrorsContained ==
  [][\A p \in Procs :
       /\ (loc'[p].bg /\ ~loc[p].bg)
          => (out'.proc = p /\ out'.status = 200 /\ out'.kind \in {"items", "rss"})
       /\ loc[p].bg
          => /\ out'.proc # p
             /\ loc'[p].pc \in {"refresh", "puts", "metaErrPut", "idle"}
             /\ loc'[p].pc # "idle" => loc'[p].bg
       /\ (loc[p].bg /\ loc[p].pc = "metaErrPut" /\ loc'[p].pc # "metaErrPut")
          => (kvItems' = kvItems /\ kvRss' = kvRss /\ kvMeta'.val.lastError # "")]_vars

\* The pipeline of a background refresh has failed and the refresh is about
\* to put the error into FeedMeta.
C7_Witness ==
  \E p \in Procs :
    loc[p].bg /\ loc[p].pc = "metaErrPut" /\ loc[p].wMeta.lastError # ""

\* C16: every put carries the 7-day expiration, a failing refresh puts
\* FeedMeta only and so never moves the expiration of the items or of the
\* RSS, and once refreshes have stopped succeeding the items and the RSS
\* eventually are, and stay, absent from the store.
C16_SafetyValveExpiration ==
  /\ [][/\ kvItems' # kvItems => kvItems'.exp = now + KV_TTL_MS
        /\ kvRss' # kvRss => kvRss'.exp = now + KV_TTL_MS
        /\ kvMeta' # kvMeta => kvMeta'.exp = now + KV_TTL_MS
        /\ \A p \in Procs :
             (loc[p].pc = "metaErrPut" /\ loc'[p].pc # "metaErrPut")
             => (kvItems' = kvItems /\ kvRss' = kvRss)]_vars
  /\ <>[](~KvLive(kvItems) /\ ~KvLive(kvRss))

\* The items have expired while FeedMeta, put again by a failing refresh, is
\* still readable.
C16_Witness ==
  /\ kvItems.has /\ ~KvLive(kvItems)
  /\ kvRss.has /\ ~KvLive(kvRss)
  /\ KvLive(kvMeta) /\ kvMeta.val.lastError # ""
  /\ kvMeta.exp > kvItems.exp

\* C17: when a put of writeKv is rejected, the refresh fails as a whole:
\* refreshNow goes to writeMetaError with an error to record, and none of the
\* three puts of this refresh has reached, or reaches, the store.
C17_FailedWriteLeavesSnapshot ==
  [][\A p \in Procs :
       (loc[p].pc = "puts" /\ loc'[p].pc = "metaErrPut")
       => /\ loc'[p].wMeta.lastError # ""
          /\ loc[p].pend = {"items", "rss", "meta"}
          /\ kvItems' = kvItems
          /\ kvRss' = kvRss]_vars

\* C18: once every refresh has completed and the last FeedMeta put was that
\* of a successful refresh, the items, the RSS and FeedMeta in the store are
\* those of one and the same refresh.
C18_TripleOfOneRefresh ==
  (/\ \A p \in Procs : loc[p].pc = "idle"
   /\ KvLive(kvItems) /\ KvLive(kvRss) /\ KvLive(kvMeta)
   /\ kvMeta.val.lastError = "")
  => /\ kvRss.val.items = kvItems.val
     /\ kvMeta.val.itemCount = Len(kvItems.val)
     /\ kvRss.val.lastBuildDate = kvMeta.val.lastSuccessIso \div MS_PER_SECOND

\* C19: no put of FeedMeta takes the stored lastSuccessTime backwards or
\* away.
C19_LastSuccessNeverMovesBack ==
  [][(KvLive(kvMeta) /\ kvMeta' # kvMeta)
     => kvMeta'.val.lastSuccessIso >= kvMeta.val.lastSuccessIso]_vars

\* The errors fetchWithRetry of the KV worker can raise.
FetchErrors == {NetworkError} \cup {HttpError(a) : a \in UpstreamAnswers}

\* C20: an extraction without items is a success of refreshNow.  The refresh
\* goes to the three puts with the empty list, itemCount 0, no lastError and
\* lastSuccessTime now; only a failed fetch sends a refresh to
\* writeMetaError; the put of the empty list replaces whatever list was
\* stored; and a request that then finds the empty list within the interval
\* is answered 200, fresh, with the empty list.
C20_EmptyExtractionIsSuccess ==
  [][\A p \in Procs :
       /\ (loc[p].pc = "refresh" /\ loc'[p].pc = "puts" /\ loc'[p].wItems = <<>>)
          => /\ loc'[p].pend = {"items", "rss", "meta"}
             /\ loc'[p].wRss.items = <<>>
             /\ loc'[p].wMeta = [lastSuccessIso |-> now, lastAttemptIso |-> now,
                                 lastError |-> "", itemCount |-> 0]
       /\ (loc[p].pc = "refresh" /\ loc'[p].pc = "metaErrPut")
          => loc'[p].wMeta.lastError \in FetchErrors
       /\ (loc[p].pc = "puts" /\ "items" \in loc[p].pend /\ "items" \notin loc'[p].pend
             /\ loc[p].wItems = <<>>)
          => (kvItems'.has /\ kvItems'.val = <<>> /\ kvItems'.exp = now + KV_TTL_MS)
       /\ (ServeReadStep(p) /\ Found(p) /\ loc[p].kind = "json" /\ kvItems.val = <<>>
             /\ loc[p].meta.lastSuccessIso # Absent
             /\ SinceSuccess(p) < RefreshIntervalMs + MS_PER_SECOND)
          => /\ out'.proc = p /\ out'.status = 200 /\ out'.feed = "FRESH_FROM_KV"
             /\ out'.kind = "items" /\ out'.items = <<>> /\ out'.error = ""
             /\ loc'[p].pc = "idle"]_vars

\* After a refresh that extracted nothing, a request has just been answered
\* 200, fresh, with the empty list.
C20_Witness ==
  /\ out.status = 200 /\ out.feed = "FRESH_FROM_KV"
  /\ out.kind = "items" /\ out.items = <<>>
  /\ KvLive(kvMeta) /\ kvMeta.val.itemCount = 0 /\ kvMeta.val.lastError = ""
  /\ KvLive(kvItems) /\ kvItems.val = <<>>
  /\ everStored

(***************************************************************************)
(* Properties of the fetcher (checked under SpecFetch)                     *)
(***************************************************************************)
\* A status after which the claims allow another attempt.
ClaimRetryable(a) == a = 403 \/ a = 429 \/ (a >= 500 /\ a <= 599)

\* A terminal status: not 2xx, and not one of 403, 429, 500-599.
ClaimTerminal(a) == a # 0 /\ ~ResOk(a) /\ ~ClaimRetryable(a)

\* C8: after a terminal status no further upstream request is issued.
C8_TerminalStatusEndsTheCall ==
  \A i \in 1..Len(fSeen) : ClaimTerminal(fSeen[i]) => fIssued <= i

C10_AttemptBoundedByTimeout ==
  /\ fPc = "inflight" => now - fStart <= FETCH_TIMEOUT_MS
  /\ tPc = "inflight" => now - tStart <= FETCH_TIMEOUT_MS

(***************************************************************************)
(* Properties of fetchChildSafetyNews (checked under SpecExtract)          *)
(***************************************************************************)
\* The call has returned items.
Extracted == xPc = "done" /\ xOut.ok

\* A content type that declares an HTML document.
HtmlLike(ct) == \E i \in 1..Len(ct) : ct[i] \in {"text/html", "application/xhtml+xml"}

\* The positions of the document's anchors that the revision keeps.
KeptAt == {i \in 1..Len(xPage) : Kept(xRev, xPage[i])}

\* The links of the kept anchors.
KeptLinks == {ResolveUrl(xPage[i].href) : i \in KeptAt}

AbsoluteUrl(u) ==
  /\ Len(u) > 8
  /\ SubSeq(u, 1, 8) = "https://"
  /\ SubSeq(u, 9, 9) # "/"

Parseable(d) == d > 0

\* C11: a 2xx answer whose content type is not HTML-like makes the call
\* raise; no items come out of it, so no snapshot is written from it.
C11_NonHtmlIsTerminal ==
  (xPc = "done" /\ ResOk(xAnswer) /\ ~HtmlLike(xCt)) => ~xOut.ok

\* C12: an extraction returns at most 15 items, each with a non-empty title
\* and an absolute link; the truncation comes after the deduplication (the
\* result has min(15, number of distinct links) items) and after the sort
\* (when every date parses, no dropped item is newer than a returned one).
C12_AtMostFifteenWellFormed ==
  Extracted =>
    /\ Len(xOut.items) <= MAX_ITEMS
    /\ \A i \in 1..Len(xOut.items) :
         /\ xOut.items[i].title # ""
         /\ AbsoluteUrl(xOut.items[i].link)
         /\ xOut.items[i].link \in KeptLinks
    /\ Len(xOut.items) = IF Cardinality(KeptLinks) <= MAX_ITEMS
                         THEN Cardinality(KeptLinks) ELSE MAX_ITEMS
    /\ (xRev = "timeout" /\ \A i \in KeptAt : Parseable(xPage[i].date))
       => \A i \in 1..Len(xOut.items) : \A j \in KeptAt :
            (\A k \in 1..Len(xOut.items) : xOut.items[k].link # ResolveUrl(xPage[j].href))
            => \A m \in KeptAt :
                 (ResolveUrl(xPage[m].href) = ResolveUrl(xPage[j].href)
                    /\ \A n \in KeptAt : n > m
                         => ResolveUrl(xPage[n].href) # ResolveUrl(xPage[j].href))
                 => xPage[m].date <= xOut.items[i].pubDate

\* A document of 17 anchors for 16 articles has been cut to the 15 newest.
C12_Witness ==
  /\ Extracted /\ xRev = "timeout"
  /\ Len(xPage) = MAX_ITEMS + 2
  /\ Cardinality(KeptLinks) = MAX_ITEMS + 1
  /\ Len(xOut.items) = MAX_ITEMS
  /\ xOut.items[1].pubDate = MAX_ITEMS + 2

\* C13: no two items of a result have the same link; every kept link of a
\* result that was not cut appears in it; and each item carries the title,
\* date and summary of the last kept anchor with its link.
C13_UniqueLinkLastSeenWins ==
  Extracted =>
    /\ \A i, j \in 1..Len(xOut.items) :
         xOut.items[i].link = xOut.items[j].link => i = j
    /\ Cardinality(KeptLinks) <= MAX_ITEMS
       => KeptLinks = {xOut.items[i].link : i \in 1..Len(xOut.items)}
    /\ \A i \in 1..Len(xOut.items) : \A m \in KeptAt :
         (/\ ResolveUrl(xPage[m].href) = xOut.items[i].link
          /\ \A n \in KeptAt : n > m => ResolveUrl(xPage[n].href) # xOut.items[i].link)
         => /\ xOut.items[i].title = xPage[m].title
            /\ xOut.items[i].pubDate = xPage[m].date
            /\ xOut.items[i].summary = Snippet(xRev, xPage[m].summary)

\* Three anchors for one article, with two different texts, gave one item
\* that has the text of the last.
C13_Witness ==
  /\ Extracted
  /\ Len(xPage) = 3
  /\ \A i \in 1..3 : xPage[i].href = <<"news", "a">> /\ xPage[i].title # ""
  /\ xPage[1].title = "T2" /\ xPage[3].title = "T1"
  /\ Len(xOut.items) = 1
  /\ xOut.items[1].title = "T1"

\* C14: in the result of the revision that sorts, an item with a parseable
\* date never comes after an item with an older parseable date.
C14_NewerDatedItemsFirst ==
  (Extracted /\ xRev = "timeout")
  => \A i, j \in 1..Len(xOut.items) :
       (i < j /\ Parseable(xOut.items[i].pubDate) /\ Parseable(xOut.items[j].pubDate))
       => xOut.items[i].pubDate >= xOut.items[j].pubDate

\* C15, as stated: the guid of an item that has a source field is that
\* source, a colon, and the item's link.
C15_GuidIsSourceColonLink ==
  (Extracted /\ xRev = "kv")
  => \A i \in 1..Len(xOut.items) :
       xOut.items[i].guid = xOut.items[i].source \o ":" \o xOut.items[i].link

\* C15, amended: an item's guid is the fixed prefix "childsafety", a colon,
\* and its link, whatever its source field; so the guid depends on the link
\* alone and the same link always gets the same guid.
C15_GuidIsFixedPrefixColonLink ==
  Extracted
  => \A i \in 1..Len(xOut.items) :
       /\ xOut.items[i].guid = "childsafety:" \o xOut.items[i].link
       /\ xOut.items[i].source \in {SOURCE, ""}
       /\ xOut.items[i].guid # xOut.items[i].source \o ":" \o xOut.items[i].link

\* The KV worker's extraction has returned an item whose source is
\* "childsafety.gov.au" and whose guid begins with "childsafety:".
C15_Witness ==
  /\ Extracted /\ xRev = "kv"
  /\ xOut.items # <<>>
  /\ xOut.items[1].source = SOURCE
  /\ xOut.items[1].guid = "childsafety:https://www.childsafety.gov.au/news/a"

(***************************************************************************)
(* The worker with one invocation at a time: a request or a scheduled run  *)
(* arrives only when no other invocation is running, so that no two        *)
(* refreshes overlap.                                                      *)
(***************************************************************************)
AllIdle == \A p \in Procs : loc[p].pc = "idle"

NextSerial ==
  \/ Tick
  \/ \E p \in Procs : AllIdle /\ ServeStart(p, "json")
  \/ \E p \in Procs : AllIdle /\ ServeStart(p, "rss")
  \/ \E p \in Procs : AllIdle /\ Scheduled(p)
  \/ \E p \in Procs : AllIdle /\ MetaEndpoint(p)
  \/ \E p \in Procs : ProcStep(p)

SpecSerial == Init /\ [][NextSerial]_vars

(***************************************************************************)
(* Properties of a refresh that runs alone (checked under SpecSerial)      *)
(***************************************************************************)
\* The step in which the last put of writeKv run by p reaches the store.
WriteKvDone(p) == loc[p].pc = "puts" /\ loc'[p].pc # "puts"

\* The step in which the put of writeMetaError run by p reaches the store.
WriteMetaErrorDone(p) == loc[p].pc = "metaErrPut" /\ loc'[p].pc # "metaErrPut"

\* C21: when a successful refresh completes with no other refresh in
\* progress, the stored FeedMeta has no lastError, lastSuccessTime and
\* lastAttemptTime are the time of that refresh and itemCount is the number
\* of items of the stored list; when a failed refresh completes, lastError
\* is the message that attempt caught (never empty) and lastAttemptTime is
\* the time of that attempt.
C21_MetaDescribesLastRefresh ==
  [][\A p \in Procs :
       /\ WriteKvDone(p)
          => /\ kvMeta'.has /\ kvItems'.has /\ kvRss'.has
             /\ kvMeta'.val.lastError = ""
             /\ kvMeta'.val.lastSuccessIso = now
             /\ kvMeta'.val.lastAttemptIso = now
             /\ kvMeta'.val.itemCount = Len(kvItems'.val)
             /\ kvRss'.val.items = kvItems'.val
       /\ (loc[p].pc = "refresh" /\ loc'[p].pc = "metaErrPut")
          => \E o \in FetchOutcomes :
               ~o.ok /\ o.err # "" /\ loc'[p].wMeta.lastError = o.err
       /\ WriteMetaErrorDone(p)
          => /\ kvMeta'.has
             /\ kvMeta'.val.lastError = loc[p].wMeta.lastError
             /\ kvMeta'.val.lastError # ""
             /\ kvMeta'.val.lastAttemptIso = now]_vars

\* A refresh that found an item has completed, later than time 0, and
\* nothing is running.
C21_Witness ==
  /\ AllIdle
  /\ now > 0
  /\ kvMeta.has /\ kvItems.has
  /\ kvMeta.val.lastSuccessIso = now
  /\ kvMeta.val.lastAttemptIso = now
  /\ kvMeta.val.lastError = ""
  /\ kvMeta.val.itemCount = Len(kvItems.val)
  /\ Len(kvItems.val) > 0

(***************************************************************************)
(* The fetcher with timers that fire: a pending sleep or abort timer       *)
(* reaches its deadline, whatever the upstream does.  Nothing obliges the  *)
(* upstream to answer a request.                                           *)
(***************************************************************************)
\* The clock reaches the deadline of the pending timer.
TimerTick ==
  /\ \/ /\ tPc = "inflight"
        /\ now < tStart + FETCH_TIMEOUT_MS
        /\ now' = tStart + FETCH_TIMEOUT_MS
     \/ /\ fPc = "backoff"
        /\ now < fStart + Backoff(fRev, fAttempt)
        /\ now' = fStart + Backoff(fRev, fAttempt)
  /\ UNCHANGED <<ticks, starts, kvVars, loc, out, everStored, extractVars, healed, edgeVars, fwrVars, tfVars>>

NextFetchLive ==
  \/ NextFetch
  \/ TimerTick

SpecFetchLive ==
  /\ Init
  /\ [][NextFetchLive]_vars
  /\ WF_vars(TimerTick)
  /\ WF_vars(FwrBackoffDone)
  /\ WF_vars(TfAbort)

(***************************************************************************)
(* Termination of the upstream fetch (checked under SpecFetchLive)         *)
(***************************************************************************)
\* C22: no operation blocks indefinitely, even when the upstream never
\* answers: a call of fetchWithRetry, on which refreshNow and the
\* synchronous refresh of a request wait, eventually returns or raises.
C22_FetchWithRetryEnds ==
  (fPc \in {"inflight", "backoff"}) ~> (fPc \in {"returned", "raised"})

\* The fetch guarded by withTimeout eventually returns or raises.
TimedFetchEnds == (tPc = "inflight") ~> (tPc \in {"returned", "raised"})

(***************************************************************************)
(* The worker with an upstream that recovers: from some point on every     *)
(* upstream fetch succeeds.  Every store operation succeeds, and every     *)
(* invocation that has begun runs to its end.                              *)
(***************************************************************************)
\* The upstream recovers.
Heal ==
  /\ ~healed
  /\ healed' = TRUE
  /\ UNCHANGED <<now, ticks, starts, kvVars, loc, out, everStored, fetchVars, extractVars,
                 edgeVars>>

\* refreshNow against the recovering upstream: once it has recovered,
\* fetchChildSafetyNews returns items.
RefreshHealing(p) ==
  /\ Refresh(p)
  /\ healed => loc'[p].pc = "puts"

\* A step of an invocation that has begun.
HealingStep(p) ==
  \/ ServeRead(p)
  \/ RefreshHealing(p)
  \/ \E k \in {"items", "rss", "meta"} : KvPut(p, k)
  \/ MetaErrPut(p)
  \/ ReadMetaAfter(p)
  \/ ReadData2(p)

NextHeal ==
  \/ Tick
  \/ Heal
  \/ \E p \in Procs : ServeStart(p, "json")
  \/ \E p \in Procs : ServeStart(p, "rss")
  \/ \E p \in Procs : Scheduled(p)
  \/ \E p \in Procs : MetaEndpoint(p)
  \/ \E p \in Procs : HealingStep(p)

SpecHeal ==
  /\ Init
  /\ [][NextHeal]_vars
  /\ WF_vars(\E p \in Procs : HealingStep(p))

(***************************************************************************)
(* Recovery of the feed (checked under SpecHeal)                           *)
(***************************************************************************)
\* The feed is FRESH: a request arriving now would find its data and a
\* FeedMeta whose lastSuccessTime is within the refresh interval, and
\* lastError is cleared.
FeedFresh ==
  /\ KvLive(kvItems) /\ KvLive(kvRss)
  /\ ~IsStale(metaAgeSeconds(getMeta, now))
  /\ getMeta.lastError = ""

\* An invocation is about to run refreshNow: a request found the feed EMPTY,
\* or STALE and answered, or a scheduled invocation began.
RefreshDue == \E p \in Procs : loc[p].pc = "refresh"

FirstAt(link) ==
  CHOOSE m \in KeptAt :
    /\ ResolveUrl(xPage[m].href) = link
    /\ \A n \in KeptAt : n < m => ResolveUrl(xPage[n].href) # link

\* The places in the result of the items whose date is missing or no date.
UndatedAt == {i \in 1..Len(xOut.items) : ~Parseable(xOut.items[i].pubDate)}

BelowNews(link) == SubSeq(link, Len(ORIGIN) + 7, Len(link))
UnderNews(link) ==
  /\ Len(link) >= Len(ORIGIN) + 6
  /\ SubSeq(link, 1, Len(ORIGIN) + 6) = ORIGIN \o "/news/"

\* A link whose path is one non-empty segment below /news/, with at most a
\* trailing slash after it, and neither query nor fragment.
OneSegmentBelowNews(link) ==
  /\ UnderNews(link)
  /\ LET rest == BelowNews(link) IN
     /\ rest # "" /\ rest # "/"
     /\ ~HasChar(rest, "?") /\ ~HasChar(rest, "#")
     /\ \A i \in 1..(Len(rest) - 1) : SubSeq(rest, i, i) # "/"

\* C25: no item links to the listing root; every item's link is one
\* non-empty segment below /news/: "/news/", hrefs with a query or a
\* fragment and hrefs with further segments are rejected.
C25_OnlyArticleLinks ==
  Extracted => \A i \in 1..Len(xOut.items) : OneSegmentBelowNews(xOut.items[i].link)

(***************************************************************************)
(* The wait between attempts (checked under SpecFetchLive)                 *)
(***************************************************************************)
\* C26: the wait between attempts of fetchWithRetry is 250 ms x attempt^2:
\* the request that follows failed attempt k is not issued before that time
\* has passed, and after the final attempt there is no wait.
C26_QuadraticBackoff ==
  [][/\ (fPc = "backoff" /\ fPc' = "inflight")
        => now - fStart >= 250 * fAttempt * fAttempt
     /\ fPc' = "backoff" => fAttempt' < TRIES]_vars

(***************************************************************************)
(* Summaries and the order of deduplicated items (under SpecExtract)       *)
(***************************************************************************)
\* C27: every item's summary has at most 500 characters.
C27_SummaryAtMost500 ==
  Extracted => \A i \in 1..Len(xOut.items) : Len(xOut.items[i].summary) <= 500

\* The place in the document of the last kept anchor with the given link.
LastAt(link) ==
  CHOOSE m \in KeptAt :
    /\ ResolveUrl(xPage[m].href) = link
    /\ \A n \in KeptAt : n > m => ResolveUrl(xPage[n].href) # link

\* C28: where no sort is applied, the result has one record per link, the
\* links in the order of their first anchors, each record made from the
\* last anchor with its link, and the links that survive the cut to 15 are
\* those whose first anchors come first.
C28_FirstPlaceLastValue ==
  (Extracted /\ xRev = "kv")
  => LET n == Len(xOut.items) IN
     /\ n = IF Cardinality(KeptLinks) <= MAX_ITEMS THEN Cardinality(KeptLinks)
            ELSE MAX_ITEMS
     /\ \A i \in 1..n :
          /\ xOut.items[i].link \in KeptLinks
          /\ xOut.items[i] = MakeItem(xRev, xPage[LastAt(xOut.items[i].link)])
          /\ \A j \in 1..n :
               i < j => FirstAt(xOut.items[i].link) < FirstAt(xOut.items[j].link)
          /\ \A l \in KeptLinks :
               FirstAt(l) < FirstAt(xOut.items[i].link)
               => \E j \in 1..n : xOut.items[j].link = l

\* Sixteen articles, the first one linked again by the seventeenth anchor:
\* the first article leads the fifteen items kept, with the text of the
\* seventeenth anchor, and the sixteenth article is cut.
C28_Witness ==
  /\ Extracted /\ xRev = "kv"
  /\ Len(xPage) = MAX_ITEMS + 2
  /\ Cardinality(KeptLinks) = MAX_ITEMS + 1
  /\ Len(xOut.items) = MAX_ITEMS
  /\ LastAt(xOut.items[1].link) = MAX_ITEMS + 2
  /\ xOut.items[1].title = "T2"

(***************************************************************************)
(* The cache-backed revision: serveJsonWithCache, serveRssWithCache and    *)
(* their background refreshes, several invocations against one edge cache. *)
(***************************************************************************)
\* What fetchChildSafetyNews of the cache-backed revision can give.
EdgeOutcomes ==
  {LET r == fetchWithRetry("edge", a, TRIES) IN
   IF r.ok THEN [ok |-> TRUE, items |-> Extract("kv", pg), err |-> ""]
   ELSE [ok |-> FALSE, items |-> <<>>, err |-> r.err] :
     a \in AnswerSeqs, pg \in Pages}

\* The response given to the client of p.
EdgeAnswer(p, r, x, msg) ==
  [proc |-> p, status |-> r.status, xcache |-> x, items |-> r.items, rss |-> r.rss,
   error |-> msg]

\* A request for a feed arrives; the invocation takes the lowest free slot.
EdgeStart(p, kind) ==
  /\ eloc[p].pc = "idle"
  /\ \A q \in Procs : q < p => eloc[q].pc # "idle"
  /\ eloc' = [eloc EXCEPT ![p] = [EdgeIdle EXCEPT !.pc = "match", !.kind = kind]]
  /\ eout' = NoEdgeResp
  /\ UNCHANGED <<now, ticks, starts, kvVars, loc, out, everStored, fetchVars, extractVars,
                 healed, cache>>

\* cache.match(cacheKey) and the branch on it: a cached response is returned
\* at once with x-cache HIT and the refresh goes on in the background.
EdgeMatch(p) ==
  /\ eloc[p].pc = "match"
  /\ LET e == cache[eloc[p].kind] IN
     IF e.has
     THEN /\ eout' = EdgeAnswer(p, e, "HIT", "")
          /\ eloc' = [eloc EXCEPT ![p].pc = "bgRefresh"]
     ELSE /\ eout' = NoEdgeResp
          /\ eloc' = [eloc EXCEPT ![p].pc = "build"]
  /\ UNCHANGED <<now, ticks, starts, kvVars, loc, out, everStored, fetchVars, extractVars,
                 healed, cache>>

\* No cache yet: fetchChildSafetyNews, then the put, or the 502 response.
EdgeBuild(p) ==
  /\ eloc[p].pc = "build"
  /\ \E o \in EdgeOutcomes :
       IF o.ok
       THEN /\ eloc' = [eloc EXCEPT ![p].pc = "put", ![p].items = o.items]
            /\ eout' = NoEdgeResp
       ELSE /\ eloc' = [eloc EXCEPT ![p] = EdgeIdle]
            /\ eout' = EdgeAnswer(p, EdgeResponse(eloc[p].kind, <<>>, 502, "ERROR"),
                                  "ERROR", o.err)
  /\ UNCHANGED <<now, ticks, starts, kvVars, loc, out, everStored, fetchVars, extractVars,
                 healed, cache>>

\* await cache.put(cacheKey, toCache.clone()); return fresh.
EdgePut(p) ==
  /\ eloc[p].pc = "put"
  /\ LET fresh == EdgeResponse(eloc[p].kind, eloc[p].items, 200, "MISS") IN
     /\ cache' = [cache EXCEPT ![eloc[p].kind] = fresh]
     /\ eout' = EdgeAnswer(p, fresh, "MISS", "")
  /\ eloc' = [eloc EXCEPT ![p] = EdgeIdle]
  /\ UNCHANGED <<now, ticks, starts, kvVars, loc, out, everStored, fetchVars, extractVars,
                 healed>>

EdgeRefreshDroppingCache(p) ==
  /\ eloc[p].pc = "bgRefresh"
  /\ \E o \in EdgeOutcomes :
       IF o.ok
       THEN /\ eloc' = [eloc EXCEPT ![p].pc = "bgPut", ![p].items = o.items]
            /\ cache' = cache
       ELSE /\ eloc' = [eloc EXCEPT ![p] = EdgeIdle]
            /\ cache' = [cache EXCEPT ![eloc[p].kind] = NoEntry]
  /\ eout' = NoEdgeResp
  /\ UNCHANGED <<now, ticks, starts, kvVars, loc, out, everStored, fetchVars, extractVars,
                 healed>>

\* refreshJsonCache / refreshRssCache up to the put: an error is swallowed.
EdgeRefresh(p) ==
  /\ eloc[p].pc = "bgRefresh"
  /\ \E o \in EdgeOutcomes :
       /\ eloc' = [eloc EXCEPT ![p] = IF o.ok
                                      THEN [eloc[p] EXCEPT !.pc = "bgPut", !.items = o.items]
                                      ELSE EdgeIdle]
       /\ cache' = cache
  /\ eout' = NoEdgeResp
  /\ UNCHANGED <<now, ticks, starts, kvVars, loc, out, everStored, fetchVars, extractVars,
                 healed>>

\* The put of the background refresh, with x-cache REFRESH.
EdgeRefreshPut(p) ==
  /\ eloc[p].pc = "bgPut"
  /\ cache' = [cache EXCEPT ![eloc[p].kind] =
                 EdgeResponse(eloc[p].kind, eloc[p].items, 200, "REFRESH")]
  /\ eloc' = [eloc EXCEPT ![p] = EdgeIdle]
  /\ eout' = NoEdgeResp
  /\ UNCHANGED <<now, ticks, starts, kvVars, loc, out, everStored, fetchVars, extractVars,
                 healed>>

\* A cached response passes its max-age, or the cache drops it.
EdgeExpire(kind) ==
  /\ cache[kind].has
  /\ cache' = [cache EXCEPT ![kind] = NoEntry]
  /\ eout' = NoEdgeResp
  /\ UNCHANGED <<now, ticks, starts, kvVars, loc, out, everStored, fetchVars, extractVars,
                 healed, eloc>>

NextEdge ==
  \/ \E p \in Procs : \E kind \in FeedKinds : EdgeStart(p, kind)
  \/ \E p \in Procs : EdgeMatch(p)
  \/ \E p \in Procs : EdgeBuild(p)
  \/ \E p \in Procs : EdgePut(p)
  \/ \E p \in Procs : EdgeRefresh(p)
  \/ \E p \in Procs : EdgeRefreshPut(p)
  \/ \E kind \in FeedKinds : EdgeExpire(kind)

SpecEdge == Init /\ [][NextEdge]_vars

(***************************************************************************)
(* Properties of the edge-cache controller (checked under SpecEdge)        *)
(***************************************************************************)
\* The body of a response or of a cached entry.
EdgeBody(r) == <<r.items, r.rss>>

\* C29: a request that finds a cached entry returns it with status 200 and
\* x-cache HIT in the step of the cache lookup, without any fetch, and goes
\* on as one background refresh, whatever the entry's age; a background
\* refresh returns nothing to a client and, when it fails, leaves the cache
\* unchanged; a 502 response goes only to a request that found no cached
\* entry and whose own fetch failed.
C29_HitServedRefreshContained ==
  [][\A p \in Procs :
       /\ (eloc[p].pc = "match" /\ eloc'[p] # eloc[p] /\ cache[eloc[p].kind].has)
          => /\ eout'.proc = p /\ eout'.status = 200 /\ eout'.xcache = "HIT"
             /\ EdgeBody(eout') = EdgeBody(cache[eloc[p].kind])
             /\ eloc'[p].pc = "bgRefresh"
             /\ cache' = cache
       /\ (eloc[p].pc \in {"bgRefresh", "bgPut"} /\ eloc'[p] # eloc[p])
          => /\ eout' = NoEdgeResp
             /\ eloc'[p].pc = "idle" /\ eloc[p].pc = "bgRefresh" => cache' = cache
       /\ (eloc'[p].pc = "build" /\ eloc[p].pc # "build")
          => eloc[p].pc = "match" /\ ~cache[eloc[p].kind].has
       /\ (eout'.status = 502 /\ eout'.proc = p)
          => eloc[p].pc = "build" /\ eout'.xcache = "ERROR" /\ eout'.error # ""]_vars

\* A request has just been served HIT from an entry that a background refresh
\* wrote, and its own background refresh is pending.
C29_Witness ==
  \E p \in Procs :
    /\ eout.proc = p /\ eout.xcache = "HIT" /\ eout.status = 200
    /\ eloc[p].pc = "bgRefresh"
    /\ cache[eloc[p].kind].xcache = "REFRESH"
    /\ Len(eout.items) > 0

====
